---- MODULE Spec2Model ----
(***************************************************************************)
(* Model of core/src/chacha.rs: chacha_cbc_encrypt_ledger, the driver that *)
(* reads chunks of serialized ledger entries from the blocktree into a     *)
(* fixed buffer, encrypts each chunk with a CBC-chained cipher and writes  *)
(* the ciphertext to a buffered output file.                               *)
(*                                                                         *)
(* Buffers are kept as run lists: a buffer is a sequence of runs           *)
(* [lo, hi, src], meaning that bytes lo..hi-1 hold bytes lo..hi-1 of the   *)
(* data named src.  Every read fills the buffer from offset 0, and every   *)
(* cipher call writes its output from offset 0, so a byte at position i    *)
(* always is byte i of its source.                                         *)
(***************************************************************************)
EXTENDS Integers, Sequences, FiniteSets, TLC

VARIABLES
    pc,               \* position of the call: idle, loop, encrypt, write, returned, panicked
    run,              \* number of calls of chacha_cbc_encrypt_ledger made so far
    slice,            \* argument: the first entry to encrypt
    ivec0,            \* the IV the caller starts every call with
    ivec,             \* the caller's IV buffer (ivec: &mut [u8; 64])
    buffer,           \* let mut buffer
    encrypted_buffer, \* let mut encrypted_buffer
    total_entries,    \* let mut total_entries
    total_size,       \* let mut total_size
    entry,            \* let mut entry
    size,             \* let mut size (of the iteration in progress)
    num_entries,      \* num_entries of the read of the iteration in progress
    store,            \* the blocktree: the answer to a read at each cursor asked so far
    out_file,         \* the slices handed to out_file.write calls that returned Ok, in order
    accepted,         \* the byte count each of those write calls reported as accepted
    ret,              \* the value the call returned
    reads,            \* requests made to read_blobs_bytes in this call, with their answers
    calls,            \* invocations of chacha_cbc_encrypt in this call
    trace,            \* external events of this call, in order
    prev              \* what the previous call left: ret, out_file, ivec

vars == <<pc, run, slice, ivec0, ivec, buffer, encrypted_buffer, total_entries,
          total_size, entry, size, num_entries, store, out_file, accepted, ret, reads,
          calls, trace, prev>>

----------------------------------------------------------------------------
(* Program constants *)

CHACHA_BLOCK_SIZE == 64

CHACHA_KEY_SIZE == 32

BUFFER_SIZE == 8 * 1024

\* Imported from storage_stage; the driver only uses it as the record budget
ENTRIES_PER_SEGMENT == 16

(* Bounds of the model *)

MaxReads == 4

MaxRuns == 2

(* Inputs *)

Slices == {0, ENTRIES_PER_SEGMENT}

SeedIVs == {1, 2}

PayloadLens == {65, 100, BUFFER_SIZE - 1, BUFFER_SIZE}

EntryCounts == {0, 1, ENTRIES_PER_SEGMENT}

IoErrors == {5, 28}

\* Capacity of the BufWriter around the output file: a slice at least this
\* long is passed through to the file, which may accept only a prefix of it
BUF_WRITER_CAPACITY == 8 * 1024

ZeroFill == -1

----------------------------------------------------------------------------
(* Byte ranges of a buffer *)

Min(a, b) == IF a < b THEN a ELSE b

Max(a, b) == IF a > b THEN a ELSE b

\* buf[..n]
SliceTo(buf, n) ==
    LET s == SelectSeq(buf, LAMBDA r : r.lo < n)
    IN  [i \in 1..Len(s) |-> [lo |-> s[i].lo, hi |-> Min(s[i].hi, n), src |-> s[i].src]]

\* buf[p..]
SliceFrom(buf, p) ==
    LET s == SelectSeq(buf, LAMBDA r : r.hi > p)
    IN  [i \in 1..Len(s) |-> [lo |-> Max(s[i].lo, p), hi |-> s[i].hi, src |-> s[i].src]]

\* buf after its first p bytes are overwritten with the first p bytes of src
Overwrite(buf, p, src) ==
    IF p = 0 THEN buf
    ELSE <<[lo |-> 0, hi |-> p, src |-> src]>> \o SliceFrom(buf, p)

----------------------------------------------------------------------------
(* The cipher provider.  The native chacha20_cbc_encrypt is opaque: its     *)
(* output and the IV it leaves are kept as terms over its arguments, so two *)
(* outputs are equal only when key, IV and input are equal.                 *)

key == 0

NoInput == << >>

CipherText(input, k, iv) == [key |-> k, iv |-> iv, pt |-> input]

NextIvec(input, k, iv) ==
    IF input = NoInput THEN iv
    ELSE [seed |-> iv.seed, chain |-> Append(iv.chain, input)]

\* chacha_cbc_encrypt(input, output, key, ivec): what it leaves in output[..]
\* and in ivec
chacha_cbc_encrypt(input, k, iv) ==
    [output |-> CipherText(input, k, iv), ivec |-> NextIvec(input, k, iv)]

StartIV(s) == [seed |-> s, chain |-> << >>]

ZeroBuffer == <<[lo |-> 0, hi |-> BUFFER_SIZE, src |-> ZeroFill]>>

ZeroEncrypted ==
    <<[lo |-> 0, hi |-> BUFFER_SIZE, src |-> CipherText(NoInput, key, StartIV(ZeroFill))]>>

----------------------------------------------------------------------------
(* The storage layer: Blocktree::read_blobs_bytes.  The ledger is read-only *)
(* during a call, so the answer to a read is fixed per cursor: it is chosen *)
(* when the cursor is first read and kept in store.                         *)

ErrResponse == [kind |-> "Err", n |-> 0, len |-> 0]

EmptyResponse == [kind |-> "Ok", n |-> 0, len |-> 0]

Responses(max) ==
    {ErrResponse, EmptyResponse} \cup
    {[kind |-> "Ok", n |-> n, len |-> len] :
        n \in {k \in EntryCounts : k <= max}, len \in PayloadLens}

read_blobs_bytes(cursor, max) ==
    IF cursor \in DOMAIN store THEN {store[cursor]} ELSE Responses(max)

----------------------------------------------------------------------------
(* The driver *)

NoRet == [kind |-> "none", val |-> 0]

Event(ev, arg) == [ev |-> ev, arg |-> arg]

\* Variant: the mask is applied without adding CHACHA_KEY_SIZE - 1 first
RoundUp_Down(sz) == sz - (sz % CHACHA_KEY_SIZE)

\* size = (size + CHACHA_KEY_SIZE - 1) & !(CHACHA_KEY_SIZE - 1)
RoundUp(sz) ==
    LET x == sz + CHACHA_KEY_SIZE - 1
    IN  x - (x % CHACHA_KEY_SIZE)

\* let mut size = entry_len; if size < BUFFER_SIZE { size = round up }
ChunkSize(len) == IF len < BUFFER_SIZE THEN RoundUp(len) ELSE len

\* Variant: the zero-length check is missing
EndOfData_Never(len) == FALSE

\* if size == 0 { break; }
EndOfData(len) == len = 0

\* Ok(total_size), reached by either break
BreakReturn == [kind |-> "Ok", val |-> total_size]

\* Variant: the read error is returned to the caller
OnReadErr_Propagate == [kind |-> "Err", val |-> 0]

\* Err(e) => { info!(..); break; }
OnReadErr == BreakReturn

\* Variant: a write error ends the loop like a read error does
OnWriteErr_Break(e) == BreakReturn

\* if let Err(res) = out_file.write(..) { return Err(res); }
OnWriteErr(e) == [kind |-> "Err", val |-> e]

\* Variant: every read asks for a whole segment
RecordBudget_Whole == ENTRIES_PER_SEGMENT

\* ENTRIES_PER_SEGMENT - total_entries, the record count of a read request
RecordBudget == ENTRIES_PER_SEGMENT - total_entries

\* Variant: the cursor counts chunks, not entries
NextEntry_One == entry + 1

\* entry += num_entries
NextEntry == entry + num_entries

\* What one out_file.write call may report as accepted: Ok(n), n <= buf.len()
Accepted(n) == {n} \cup (IF n >= BUF_WRITER_CAPACITY THEN {n \div 2} ELSE {})

\* Variant: the read buffer is a static that outlives the call
FreshBuffer_Static == buffer

\* let mut buffer = [0; BUFFER_SIZE]
FreshBuffer == ZeroBuffer

\* Variant: the cipher is handed a copy of the IV, the caller's buffer keeps its value
EncryptChunk_IvCopy ==
    [output |-> chacha_cbc_encrypt(SliceTo(buffer, size), key, ivec).output, ivec |-> ivec]

\* chacha_cbc_encrypt(&buffer[..size], &mut encrypted_buffer[..size], &key, ivec)
EncryptChunk == chacha_cbc_encrypt(SliceTo(buffer, size), key, ivec)

Init ==
    /\ pc = "idle"
    /\ run = 0
    /\ slice \in Slices
    /\ ivec0 \in {StartIV(s) : s \in SeedIVs}
    /\ ivec = ivec0
    /\ buffer = ZeroBuffer
    /\ encrypted_buffer = ZeroEncrypted
    /\ total_entries = 0
    /\ total_size = 0
    /\ entry = 0
    /\ size = 0
    /\ num_entries = 0
    /\ store = [c \in {} |-> EmptyResponse]
    /\ out_file = << >>
    /\ accepted = << >>
    /\ ret = NoRet
    /\ reads = << >>
    /\ calls = << >>
    /\ trace = << >>
    /\ prev = [ret |-> NoRet, out_file |-> << >>, ivec |-> ivec0]

\* The caller starts a call: it hands in its IV buffer, holding the starting IV.
\* It repeats the call, over the same ledger, only after a call that returned Ok.
CallerEnters ==
    /\ pc = "idle" \/ (pc = "returned" /\ ret.kind = "Ok")
    /\ run < MaxRuns
    /\ run' = run + 1
    /\ prev' = IF pc = "returned"
               THEN [ret |-> ret, out_file |-> out_file, ivec |-> ivec]
               ELSE prev
    /\ ivec' = ivec0
    /\ ret' = NoRet
    /\ reads' = << >>
    /\ calls' = << >>
    /\ UNCHANGED <<slice, ivec0, store>>

\* Function entry, the output file is created
Call ==
    /\ CallerEnters
    /\ out_file' = << >>
    /\ accepted' = << >>
    /\ buffer' = FreshBuffer
    /\ encrypted_buffer' = ZeroEncrypted
    /\ total_entries' = 0
    /\ total_size' = 0
    /\ entry' = slice
    /\ size' = 0
    /\ num_entries' = 0
    /\ trace' = << >>
    /\ pc' = "loop"

\* Function entry, File::create fails: expect() panics
CallCreateFails ==
    /\ CallerEnters
    /\ trace' = <<Event("create_err", 0)>>
    /\ pc' = "panicked"
    /\ UNCHANGED <<out_file, accepted, buffer, encrypted_buffer, total_entries,
                   total_size, entry, size, num_entries>>

\* One read_blobs_bytes call and the match on its result, up to total_size += size
ReadBlobs ==
    /\ pc = "loop"
    /\ Len(reads) < MaxReads
    /\ LET max == RecordBudget
       IN  \E r \in read_blobs_bytes(entry, max) :
            /\ store' = (entry :> r) @@ store
            /\ reads' = Append(reads, [entry |-> entry, max |-> max, kind |-> r.kind,
                                       n |-> r.n, len |-> r.len])
            /\ IF r.kind = "Err"
               THEN /\ trace' = Append(trace, Event("read_err", 0))
                    /\ ret' = OnReadErr
                    /\ pc' = "returned"
                    /\ UNCHANGED <<buffer, size, total_size, num_entries>>
               ELSE IF EndOfData(r.len)
               THEN /\ trace' = Append(trace, Event("read", r.len))
                    /\ ret' = BreakReturn
                    /\ pc' = "returned"
                    /\ UNCHANGED <<buffer, size, total_size, num_entries>>
               ELSE /\ trace' = Append(trace, Event("read", r.len))
                    /\ buffer' = Overwrite(buffer, r.len, entry)
                    /\ size' = ChunkSize(r.len)
                    /\ total_size' = total_size + ChunkSize(r.len)
                    /\ num_entries' = r.n
                    /\ pc' = "encrypt"
                    /\ UNCHANGED ret
    /\ UNCHANGED <<run, slice, ivec0, ivec, encrypted_buffer, total_entries, entry,
                   out_file, accepted, calls, prev>>

\* The cipher call of the iteration
Encrypt ==
    /\ pc = "encrypt"
    /\ encrypted_buffer' = Overwrite(encrypted_buffer, size, EncryptChunk.output)
    /\ ivec' = EncryptChunk.ivec
    /\ calls' = Append(calls, [ivIn |-> ivec, len |-> size,
                               input |-> SliceTo(buffer, size),
                               ivOut |-> NextIvec(SliceTo(buffer, size), key, ivec)])
    /\ trace' = Append(trace, Event("encrypt", size))
    /\ pc' = "write"
    /\ UNCHANGED <<run, slice, ivec0, buffer, total_entries, total_size, entry, size,
                   num_entries, store, out_file, accepted, ret, reads, prev>>

\* out_file.write of the iteration, then the cursor and record count advance
Write ==
    /\ pc = "write"
    /\ \E outcome \in {0} \cup IoErrors, taken \in Accepted(size) :
        IF outcome = 0
        THEN /\ out_file' = Append(out_file, [len |-> size,
                                              data |-> SliceTo(encrypted_buffer, size)])
             /\ accepted' = Append(accepted, taken)
             /\ trace' = Append(trace, Event("write", size))
             /\ total_entries' = total_entries + num_entries
             /\ entry' = NextEntry
             /\ pc' = "loop"
             /\ UNCHANGED ret
        ELSE /\ trace' = Append(trace, Event("write_err", outcome))
             /\ ret' = OnWriteErr(outcome)
             /\ pc' = "returned"
             /\ UNCHANGED <<out_file, accepted, total_entries, entry>>
    /\ UNCHANGED <<run, slice, ivec0, ivec, buffer, encrypted_buffer, total_size, size,
                   num_entries, store, reads, calls, prev>>

Next == Call \/ CallCreateFails \/ ReadBlobs \/ Encrypt \/ Write

Spec == Init /\ [][Next]_vars

----------------------------------------------------------------------------
(* Observations over the logs of the call in progress *)

RECURSIVE SumLen(_)
SumLen(seq) == IF seq = << >> THEN 0 ELSE seq[1].len + SumLen(Tail(seq))

Lens(seq) == [i \in 1..Len(seq) |-> seq[i].len]

AllOk(seq) == \A i \in 1..Len(seq) : seq[i].kind = "Ok"

IsShort(r) == r.kind = "Ok" /\ 0 < r.len /\ r.len < BUFFER_SIZE

IsFull(r) == r.kind = "Ok" /\ r.len = BUFFER_SIZE

WriteEvents == SelectSeq(trace, LAMBDA e : e.ev = "write")

\* n rounded up to the next multiple of the cipher block size
RoundToBlock(n) == ((n + CHACHA_BLOCK_SIZE - 1) \div CHACHA_BLOCK_SIZE) * CHACHA_BLOCK_SIZE

\* The storage delivered full chunks, then at most one short chunk, then zero bytes
FullThenShortThenZero ==
    /\ reads # << >>
    /\ AllOk(reads)
    /\ reads[Len(reads)].len = 0
    /\ \A i \in 1..(Len(reads) - 2) : reads[i].len = BUFFER_SIZE
    /\ \A i \in 1..(Len(reads) - 1) : reads[i].len > 0

\* Every non-empty read of the call reported at least one entry
EveryChunkHasEntries ==
    \A i \in 1..Len(reads) : (reads[i].kind = "Ok" /\ reads[i].len > 0) => reads[i].n >= 1

----------------------------------------------------------------------------
(* Claims *)

\* C1: when the storage delivers L bytes as full chunks, at most one short
\* chunk and then zero bytes, the call returns Ok(L) if L is a multiple of
\* the buffer size, and otherwise Ok of L rounded up to the next multiple of
\* the cipher block size, 64.
C1_LengthInvariant ==
    (pc = "returned" /\ ret.kind = "Ok" /\ FullThenShortThenZero) =>
        LET L == SumLen(reads)
        IN  ret.val = IF L % BUFFER_SIZE = 0 THEN L ELSE RoundToBlock(L)

\* C2: after a read that returned a non-zero payload shorter than the buffer,
\* no further read request is issued: the short read is the last read (shown
\* for a storage whose every non-empty read reports at least one entry).
C2_NoReadAfterShortRead ==
    EveryChunkHasEntries =>
        \A i \in 1..Len(reads) : IsShort(reads[i]) => i = Len(reads)

\* C3: a storage read error ends the call with Ok of what was written: after
\* N full chunks and an error the call has returned Ok(N * 8192), the sink
\* holds exactly N writes of 8192 bytes, the cipher ran N times, and the
\* error is the last event of the call.
C3_SoftStopOnReadError ==
    \A i \in 1..Len(reads) :
        reads[i].kind = "Err" =>
            /\ i = Len(reads)
            /\ pc = "returned"
            /\ trace[Len(trace)].ev = "read_err"
            /\ ret.kind = "Ok"
            /\ (\A j \in 1..(i - 1) : IsFull(reads[j])) =>
                    /\ ret.val = (i - 1) * BUFFER_SIZE
                    /\ Len(out_file) = i - 1
                    /\ \A j \in 1..(i - 1) : out_file[j].len = BUFFER_SIZE
                    /\ Len(calls) = i - 1

C3_Witness ==
    /\ pc = "returned"
    /\ Len(reads) = 3
    /\ IsFull(reads[1]) /\ IsFull(reads[2]) /\ reads[3].kind = "Err"
    /\ ret = [kind |-> "Ok", val |-> 2 * BUFFER_SIZE]
    /\ Len(out_file) = 2

\* C4: a failed sink write is the last event of the call: the call has
\* returned Err carrying the sink's error, nothing was read, encrypted or
\* written after it, and the sink holds exactly the writes that succeeded
\* before it.
C4_HardFailureOnWriteError ==
    \A i \in 1..Len(trace) :
        trace[i].ev = "write_err" =>
            /\ i = Len(trace)
            /\ pc = "returned"
            /\ ret = [kind |-> "Err", val |-> trace[i].arg]
            /\ Len(out_file) = Len(WriteEvents)
            /\ \A k \in 1..Len(out_file) : out_file[k].len = WriteEvents[k].arg

C4_Witness ==
    /\ pc = "returned"
    /\ trace # << >>
    /\ trace[Len(trace)].ev = "write_err"
    /\ ret.kind = "Err"
    /\ ret.val \in IoErrors
    /\ Len(out_file) = 2

\* C5: when the output file cannot be created, the call returns an Err value
\* to the caller, without any storage read or cipher call.
C5_CreateFailureReturnsErr ==
    (trace # << >> /\ trace[1].ev = "create_err") =>
        /\ pc = "returned"
        /\ ret.kind = "Err"
        /\ reads = << >>
        /\ calls = << >>

\* C6: the first cipher invocation of a call receives the caller's starting
\* IV, every later invocation receives the IV the one before it left, and
\* the caller's IV buffer holds the IV the last invocation left (the starting
\* IV if there was none).
C6_IvThreading ==
    /\ calls # << >> => calls[1].ivIn = ivec0
    /\ \A n \in 1..(Len(calls) - 1) : calls[n + 1].ivIn = calls[n].ivOut
    /\ ivec = IF calls = << >> THEN ivec0 ELSE calls[Len(calls)].ivOut

C6_Witness ==
    /\ pc = "returned"
    /\ Len(calls) = 3
    /\ calls[2].ivIn # ivec0
    /\ calls[3].ivIn # calls[2].ivIn
    /\ ivec = calls[3].ivOut

\* C7: a second call over the same ledger, with the same start offset and the
\* same starting IV, that returns Ok has issued the same sink writes, with
\* the same contents, and returns the same total as the call before it.
C7_ChainingDeterminism ==
    (run >= 2 /\ pc = "returned" /\ ret.kind = "Ok") =>
        /\ out_file = prev.out_file
        /\ ret = prev.ret

C7_Witness ==
    /\ run = 2
    /\ pc = "returned"
    /\ ret.kind = "Ok"
    /\ Len(out_file) = 2
    /\ out_file[1].len < BUFFER_SIZE
    /\ out_file = prev.out_file

\* C8: when the first storage read reports zero bytes, the call has returned
\* Ok(0) after that single read, the cipher was never invoked, the IV is
\* the starting IV and the sink received no write.
C8_EmptyInput ==
    (reads # << >> /\ reads[1].kind = "Ok" /\ reads[1].len = 0) =>
        /\ pc = "returned"
        /\ ret = [kind |-> "Ok", val |-> 0]
        /\ Len(reads) = 1
        /\ calls = << >>
        /\ ivec = ivec0
        /\ out_file = << >>

C8_Witness ==
    /\ pc = "returned"
    /\ Len(reads) = 1
    /\ reads[1].kind = "Ok"
    /\ reads[1].len = 0
    /\ ret = [kind |-> "Ok", val |-> 0]

\* C9: when the storage yields chunks of 8192, 8192 and 100 bytes and then
\* zero, the sink has received exactly three writes, of 8192, 8192 and 128
\* bytes in that order, and the call returns Ok(16512).
C9_SampleScenario ==
    (pc = "returned" /\ AllOk(reads) /\ Lens(reads) = <<8192, 8192, 100, 0>>) =>
        /\ Lens(out_file) = <<8192, 8192, 128>>
        /\ ret = [kind |-> "Ok", val |-> 16512]

C9_Witness ==
    /\ pc = "returned"
    /\ AllOk(reads)
    /\ Lens(reads) = <<BUFFER_SIZE, BUFFER_SIZE, 100, 0>>
    /\ Len(out_file) = 3

\* C10: every sink write except the last one has the length of the buffer,
\* 8192: no chunk is written after a padded one (shown for a storage whose
\* every non-empty read reports at least one entry).
C10_OnlyLastWriteShort ==
    EveryChunkHasEntries =>
        \A i \in 1..(Len(out_file) - 1) : out_file[i].len = BUFFER_SIZE

\* C11: every slice handed to the cipher, for a read of p payload bytes, has
\* a length that is a multiple of the cipher block size 64, is at least p,
\* is less than p + 64 and is at most the buffer capacity 8192; the input
\* slice holds exactly that many bytes.
C11_CipherPrecondition ==
    EveryChunkHasEntries =>
        \A i \in 1..Len(calls) :
            LET p == reads[i].len
                n == calls[i].len
            IN  /\ n % CHACHA_BLOCK_SIZE = 0
                /\ n >= p
                /\ n < p + CHACHA_BLOCK_SIZE
                /\ n <= BUFFER_SIZE
                /\ calls[i].input # << >>
                /\ calls[i].input[Len(calls[i].input)].hi = n

\* Entries reported by the reads before read i of the call
RECURSIVE EntriesBefore(_)
EntriesBefore(i) == IF i <= 1 THEN 0 ELSE EntriesBefore(i - 1) + reads[i - 1].n

\* C12: every read requests exactly the records left of the segment,
\* ENTRIES_PER_SEGMENT less the records consumed so far, never a negative
\* count; with a storage that reports no more records than requested,
\* total_entries never exceeds ENTRIES_PER_SEGMENT.
C12_RecordBudget ==
    /\ total_entries <= ENTRIES_PER_SEGMENT
    /\ \A i \in 1..Len(reads) :
        /\ reads[i].n <= reads[i].max
        /\ reads[i].max >= 0
        /\ reads[i].max = ENTRIES_PER_SEGMENT - EntriesBefore(i)

C12_Witness ==
    /\ total_entries = ENTRIES_PER_SEGMENT
    /\ Len(reads) = 3
    /\ reads[1].n = ENTRIES_PER_SEGMENT
    /\ reads[2].max = 0
    /\ reads[2].len > 0
    /\ pc = "returned"

\* A call is in progress or has returned
InCall == pc \in {"loop", "encrypt", "write", "returned"}

\* The step is taken inside the loop of a call
LoopStep == pc \in {"loop", "encrypt", "write"}

\* The step is a successful write of the chunk read and encrypted before it
WroteChunk == pc = "write" /\ pc' = "loop" /\ trace' = Append(trace, Event("write", size))

\* The step is a successful read of a non-empty chunk
ReadChunk == pc = "loop" /\ pc' = "encrypt" /\ reads'[Len(reads')].len > 0

\* The cursor of every read request is slice plus the records consumed so far
CursorIsSlicePlusEntries ==
    InCall =>
        /\ entry = slice + total_entries
        /\ \A i \in 1..Len(reads) : reads[i].entry = slice + EntriesBefore(i)

\* Cursor and accumulators never decrease inside the loop
AccumulatorsGrow ==
    LoopStep =>
        /\ entry' >= entry
        /\ total_entries' >= total_entries
        /\ total_size' >= total_size

\* C13: at every read request the cursor is slice plus the records consumed
\* so far; cursor, total records and total bytes never decrease, and each of
\* the three is advanced only by the step that successfully wrote a chunk
\* that was read and encrypted.
C13_CursorInvariant ==
    /\ []CursorIsSlicePlusEntries
    /\ [][/\ AccumulatorsGrow
          /\ LoopStep =>
                ((entry' # entry \/ total_entries' # total_entries \/ total_size' # total_size)
                    => WroteChunk)]_vars

\* C13, amended: as C13 for the cursor and the total of records; the total
\* of bytes is advanced by the step that successfully read a non-empty
\* chunk, before that chunk is encrypted and written.
C13_CursorInvariantAmended ==
    /\ []CursorIsSlicePlusEntries
    /\ [][/\ AccumulatorsGrow
          /\ LoopStep =>
                /\ (entry' # entry \/ total_entries' # total_entries) => WroteChunk
                /\ total_size' # total_size => ReadChunk]_vars

C13_Witness ==
    /\ pc = "loop"
    /\ slice > 0
    /\ total_entries = 2
    /\ entry = slice + 2
    /\ Len(reads) = 2
    /\ total_size > 0

\* C14: when a read fills only the first p < 8192 bytes of the buffer, the
\* plaintext handed to the cipher is the p new payload bytes followed by
\* residual bytes, which are all zero if this is the first read of the call
\* and bytes of the preceding chunk otherwise (shown for a storage whose
\* every non-empty read reports at least one entry).
C14_PaddingFromPrecedingChunk ==
    EveryChunkHasEntries =>
        \A i \in 1..Len(calls) :
            LET p == reads[i].len
                input == calls[i].input
            IN  p < BUFFER_SIZE =>
                    /\ input[1] = [lo |-> 0, hi |-> p, src |-> reads[i].entry]
                    /\ \A k \in 2..Len(input) :
                        input[k].src = IF i = 1 THEN ZeroFill ELSE reads[i - 1].entry

\* Every non-empty read is followed by one cipher call of that chunk and then
\* one sink write of it, before anything else happens
OnePassPerChunk ==
    \A i \in 1..Len(trace) :
        /\ (trace[i].ev = "read" /\ trace[i].arg > 0) =>
                /\ i = Len(trace) => pc = "encrypt"
                /\ i < Len(trace) => trace[i + 1].ev = "encrypt"
        /\ trace[i].ev = "encrypt" =>
                /\ i > 1 /\ trace[i - 1].ev = "read" /\ trace[i - 1].arg > 0
                /\ i = Len(trace) => pc = "write"
                /\ i < Len(trace) => (/\ trace[i + 1].ev \in {"write", "write_err"}
                                      /\ trace[i + 1].ev = "write" =>
                                            trace[i + 1].arg = trace[i].arg)
        /\ trace[i].ev \in {"write", "write_err"} => (i > 1 /\ trace[i - 1].ev = "encrypt")
        /\ (trace[i].ev = "write" /\ i < Len(trace)) => trace[i + 1].ev \in {"read", "read_err"}

\* The k-th write of the call is the ciphertext of the k-th chunk read
WritesInReadOrder ==
    InCall =>
        /\ Len(out_file) <= Len(calls)
        /\ \A k \in 1..Len(out_file) :
            out_file[k].data =
                <<[lo |-> 0, hi |-> calls[k].len,
                   src |-> CipherText(calls[k].input, key, calls[k].ivIn)]>>

\* C15: every successful non-empty read is followed by exactly one cipher
\* invocation and then exactly one sink write of that chunk before the next
\* read, the sink receives the ciphertext chunks in the order they were
\* read, and the read request that follows a non-empty read never uses the
\* same cursor.
C15_ForwardProgress ==
    /\ OnePassPerChunk
    /\ WritesInReadOrder
    /\ \A i \in 1..(Len(reads) - 1) :
        (reads[i].kind = "Ok" /\ reads[i].len > 0) => reads[i + 1].entry # reads[i].entry

RECURSIVE Sum(_)
Sum(seq) == IF seq = << >> THEN 0 ELSE seq[1] + Sum(Tail(seq))

\* C16: whenever the call returns Ok(n), n is the number of ciphertext bytes
\* the sink accepted, also when a write call accepted only a prefix of its
\* slice.
C16_TotalIsWhatSinkTook ==
    (pc = "returned" /\ ret.kind = "Ok") => ret.val = Sum(accepted)

\* C17: the loop terminates: every iteration that returns to the top of the
\* loop has consumed at least one record of the budget, so that successive
\* read requests ask for strictly fewer records and at most
\* ENTRIES_PER_SEGMENT + 1 requests are made; in particular a non-empty fill
\* that reports zero records does not send the loop back to the same request.
C17_EveryIterationConsumesBudget ==
    /\ Len(reads) <= ENTRIES_PER_SEGMENT + 1
    /\ \A i \in 1..(Len(reads) - 1) : reads[i + 1].max < reads[i].max

====
